---- MODULE Spec2Model ----
(***************************************************************************)
(* DS1390 real-time-clock driver (DS1390_SPI.cpp, v1.4).                   *)
(*                                                                         *)
(* The device is a block of 16 byte registers reached through the SPI      *)
(* byte-exchange primitive.  Every public operation of the driver is one   *)
(* action; the body of each operation is an operator over a machine value  *)
(* m = [reg, log] that threads the register file and the bus trace through *)
(* the operation's reads and writes in program order.                      *)
(*                                                                         *)
(* Integer widths: uint8_t results are reduced modulo 2^8.  A uint32_t is   *)
(* a pair <<high, low>> of 16-bit limbs (value high * 65536 + low), with   *)
(* addition, multiplication and division carried limb by limb and reduced  *)
(* modulo 2^32.  `int` is taken as 32 bits wide; an int product that       *)
(* leaves the int range and is then added to a uint32_t is taken modulo    *)
(* 2^32, which is what the two's-complement targets of the driver compute. *)
(***************************************************************************)
EXTENDS Integers, Sequences, FiniteSets, TLC

VARIABLES
    reg,       \* device registers, address 0..15 -> byte
    buf,       \* DS1390::_DateTimeBuffer
    call,      \* the public operation that ran last: name, argument, result, bus trace
    steps,     \* number of public operations performed so far
    pc,        \* position of the caller: "idle" (device operations), "cal", "epoch", "done"
               \* (epoch conversions), "dec", "bcd", "decoded" (BCD codec)
    cal,       \* conversion harness: the DS1390DateTime handed to dateTimeToEpoch
    tz,        \* conversion harness: the Timezone argument
    arg,       \* conversion harness: the caller's structure after dateTimeToEpoch returned
    epoch,     \* conversion harness: the uint32_t timestamp
    out,       \* conversion harness: the structure filled by epochToDateTime
    codec      \* codec harness: the byte handed to dec2bcd, its result, and bcd2dec of that

vars == <<reg, buf, call, steps, pc, cal, tz, arg, epoch, out, codec>>

(***************************************************************************)
(* Machine arithmetic                                                      *)
(***************************************************************************)
U8(x) == x % 256

\* the uint32_t that an int n (negative or not) converts to
ToU32(n) == <<(n \div 65536) % 65536, n % 65536>>

\* a + b on uint32_t
U32Add(a, b) == <<(a[1] + b[1] + ((a[2] + b[2]) \div 65536)) % 65536, (a[2] + b[2]) % 65536>>

\* a + n for a uint32_t a and an int n
U32AddInt(a, n) == U32Add(a, ToU32(n))

\* a * k on uint32_t, for 0 <= k < 32768
U32MulInt(a, k) == <<(a[1] * k + ((a[2] * k) \div 65536)) % 65536, (a[2] * k) % 65536>>

\* a / k on uint32_t, for 0 < k < 32768
U32DivInt(a, k) == <<a[1] \div k, (((a[1] % k) * 65536) + a[2]) \div k>>

\* a % k on uint32_t, for 0 < k < 32768
U32ModInt(a, k) == (((a[1] % k) * 65536) + a[2]) % k

\* the uint32_t holding Days whole days and Secs further seconds
\* (86400 = 65536 + 20864)
U32OfDaySec(Days, Secs) ==
    <<(Days + ((Days * 20864 + Secs) \div 65536)) % 65536, (Days * 20864 + Secs) % 65536>>

\* the value of a uint32_t below 2^31 as an integer
U32ToInt(a) == (a[1] * 65536) + a[2]

RECURSIVE BitAndFrom(_, _, _)
BitAndFrom(x, y, w) ==
    IF x = 0 \/ y = 0 THEN 0
    ELSE w * ((x % 2) * (y % 2)) + BitAndFrom(x \div 2, y \div 2, 2 * w)

\* x & y on non-negative operands
BitAnd(x, y) == BitAndFrom(x, y, 1)

\* x | y on non-negative operands
BitOr(x, y) == x + y - BitAnd(x, y)

\* x & ~mask, for a byte x and a mask of one byte
BitClear(x, mask) == x - BitAnd(x, mask)

ShiftLeft(x, n) == x * (2 ^ n)

ShiftRight(x, n) == x \div (2 ^ n)

\* Arduino's constrain(amt, low, high) macro
constrain(amt, low, high) == IF amt < low THEN low ELSE IF amt > high THEN high ELSE amt

(***************************************************************************)
(* Constants of DS1390_SPI.h                                               *)
(***************************************************************************)
DS1390_TCH_DISABLE == 0
DS1390_TCH_250_NO_D == 165
DS1390_TCH_250_D == 41
DS1390_TCH_2K_NO_D == 166
DS1390_TCH_2K_D == 170
DS1390_TCH_4K_NO_D == 167
DS1390_TCH_4K_D == 171

DS1390_FORMAT_24H == 0
DS1390_FORMAT_12H == 1

DS1390_AM == 0
DS1390_PM == 1

DS1390_ADDR_READ_HSEC == 0
DS1390_ADDR_READ_SEC == 1
DS1390_ADDR_READ_MIN == 2
DS1390_ADDR_READ_HRS == 3
DS1390_ADDR_READ_WDAY == 4
DS1390_ADDR_READ_DAY == 5
DS1390_ADDR_READ_MON == 6
DS1390_ADDR_READ_YRS == 7
DS1390_ADDR_READ_STS == 14
DS1390_ADDR_READ_TCH == 15

DS1390_ADDR_WRITE_HSEC == 128
DS1390_ADDR_WRITE_SEC == 129
DS1390_ADDR_WRITE_MIN == 130
DS1390_ADDR_WRITE_HRS == 131
DS1390_ADDR_WRITE_WDAY == 132
DS1390_ADDR_WRITE_DAY == 133
DS1390_ADDR_WRITE_MON == 134
DS1390_ADDR_WRITE_YRS == 135
DS1390_ADDR_WRITE_STS == 142
DS1390_ADDR_WRITE_TCH == 143

DS1390_MASK_AMPM == 32
DS1390_MASK_FORMAT == 64
DS1390_MASK_CENTURY == 128
\* the oscillator-stop flag is the bit getValidation shifts down by 7
DS1390_MASK_OSF == 128

\* LEAP_YEAR without the divisible-by-400 exception
LEAP_YEAR_No400(Y) ==
    /\ (1970 + Y) > 0
    /\ (1970 + Y) % 4 = 0
    /\ (1970 + Y) % 100 # 0

\* LEAP_YEAR(Y), Y counted from 1970
LEAP_YEAR(Y) ==
    /\ (1970 + Y) > 0
    /\ (1970 + Y) % 4 = 0
    /\ ((1970 + Y) % 100 # 0 \/ (1970 + Y) % 400 = 0)

\* DS1390::_MonthDuration, indexed from 0 as in the source
MonthDuration(i) == <<31, 28, 31, 30, 31, 30, 31, 31, 30, 31, 30, 31>>[i + 1]

\* a default-constructed DS1390DateTime
NewDateTime ==
    [Hsecond |-> 0, Second |-> 0, Minute |-> 0, Hour |-> 0, Wday |-> 0,
     Day |-> 0, Month |-> 0, Year |-> 0, AmPm |-> 0, Century |-> 0]

(***************************************************************************)
(* The device and the transport, as the driver sees them                   *)
(***************************************************************************)
RegAddrs == 0 .. 15

Select == [kind |-> "select", mosi |-> 0, miso |-> 0]

Deselect == [kind |-> "deselect", mosi |-> 0, miso |-> 0]

\* SPI.transfer(mosi) returning miso
Transfer(mosi, miso) == [kind |-> "transfer", mosi |-> mosi, miso |-> miso]

\* the register an address byte names (top bit: 1 = write, 0 = read)
RegOf(Address) == Address % 128

\* dec2bcd that splits the value into hexadecimal instead of decimal digits
dec2bcd_HexDigits(DecValue) == U8(BitOr(ShiftLeft(DecValue \div 16, 4), DecValue % 16))

dec2bcd(DecValue) == U8(BitOr(ShiftLeft(DecValue \div 10, 4), DecValue % 10))

bcd2dec(BCDValue) == U8(BitAnd(ShiftRight(BCDValue, 4), 15) * 10 + BitAnd(BCDValue, 15))

writeByte(m, Address, Data) ==
    [reg |-> [m.reg EXCEPT ![RegOf(Address)] = Data],
     log |-> m.log \o <<Select, Transfer(Address, 0), Transfer(Data, 0), Deselect>>]

readByte(m, Address) ==
    [m   |-> [m EXCEPT !.log = @ \o <<Select, Transfer(Address, 0),
                                       Transfer(255, m.reg[RegOf(Address)]), Deselect>>],
     ret |-> m.reg[RegOf(Address)]]

getTimeFormat(m) ==
    LET r == readByte(m, DS1390_ADDR_READ_HRS)
    IN  [m |-> r.m, ret |-> ShiftRight(BitAnd(r.ret, DS1390_MASK_FORMAT), 6)]

(***************************************************************************)
(* Epoch conversions                                                       *)
(***************************************************************************)
\* for (Counter = 0; Counter < DateTime.Year; Counter++) if (LEAP_YEAR(Counter)) Epoch += 86400
\* (one addition of 86400 for every Counter in 0 .. Year-1 that LEAP_YEAR accepts)
LeapLoop(Year, Epoch) ==
    U32AddInt(Epoch, 86400 * Cardinality({Counter \in 0 .. (Year - 1) : LEAP_YEAR(Counter)}))

RECURSIVE MonthLoop(_, _, _, _)
\* for (Counter = 1; Counter < DateTime.Month; Counter++) Epoch += days of month Counter
MonthLoop(Counter, Month, Year, Epoch) ==
    IF Counter < Month
    THEN MonthLoop(Counter + 1, Month, Year,
                   IF Counter = 2 /\ LEAP_YEAR(Year)
                   THEN U32AddInt(Epoch, 86400 * 29)
                   ELSE U32AddInt(Epoch, 86400 * MonthDuration(Counter - 1)))
    ELSE Epoch

dateTimeToEpoch(m, DateTime, Timezone) ==
    LET Year  == U8(DateTime.Year + 30)
        f     == getTimeFormat(m)
        Hour  == IF f.ret = DS1390_FORMAT_12H /\ DateTime.AmPm = DS1390_PM
                 THEN U8(DateTime.Hour + 12)
                 ELSE DateTime.Hour
        E0    == IF Timezone # 0
                 THEN U32AddInt(ToU32(0), constrain(Timezone, -12, 12) * (-3600))
                 ELSE ToU32(0)
        E1    == U32Add(E0, U32MulInt(ToU32(86400 * 365), Year))
        E2    == LeapLoop(Year, E1)
        E3    == MonthLoop(1, DateTime.Month, Year, E2)
        E4    == U32AddInt(E3, (DateTime.Day - 1) * 86400)
        E5    == U32AddInt(E4, Hour * 3600)
        E6    == U32AddInt(E5, DateTime.Minute * 60)
        E7    == U32AddInt(E6, DateTime.Second)
    IN  [m        |-> f.m,
         DateTime |-> [DateTime EXCEPT !.Year = Year, !.Hour = Hour],
         ret      |-> E7]

\* the weekday with day 0 taken as a Wednesday
WdayOfDays_Wednesday(EpochTime) == U8(((EpochTime + 3) % 7) + 1)

\* DateTime.Wday = ((EpochTime + 4) % 7) + 1, EpochTime in whole days
WdayOfDays(EpochTime) == U8(((EpochTime + 4) % 7) + 1)

\* the value of Days after the pass of the year loop that adds the length of year Year
\* (Year counted from 1970, over the range of the uint8_t counter)
DaysAfterYear ==
    [Year \in 0 .. 255 |->
        365 * (Year + 1) + Cardinality({Y \in 0 .. Year : LEAP_YEAR(Y)})]

\* while ((unsigned)(Days += (LEAP_YEAR(Year) ? 366 : 365)) <= EpochTime) Year++
\* (the loop leaves at the first Year whose accumulated Days exceeds EpochTime)
YearLoop(EpochTime) ==
    LET Year == Cardinality({Y \in 0 .. 255 : DaysAfterYear[Y] <= EpochTime})
    IN  [Year |-> Year, Days |-> DaysAfterYear[Year]]

RECURSIVE DayLoop(_, _, _)
\* for (Month = 0; Month < 12; Month++) { ... if (EpochTime >= MonthLength) EpochTime -= MonthLength; else break; }
DayLoop(Month, Year, EpochTime) ==
    IF Month < 12
    THEN LET MonthLength == IF Month = 1
                            THEN (IF LEAP_YEAR(Year) THEN 29 ELSE 28)
                            ELSE MonthDuration(Month)
         IN  IF EpochTime >= MonthLength
             THEN DayLoop(Month + 1, Year, EpochTime - MonthLength)
             ELSE [Month |-> Month, EpochTime |-> EpochTime]
    ELSE [Month |-> Month, EpochTime |-> EpochTime]

epochToDateTime(m, Epoch, DateTime, Timezone) ==
    LET T0     == IF Timezone # 0 THEN U32AddInt(Epoch, Timezone * 3600) ELSE Epoch
        Second == U8(U32ModInt(T0, 60))
        T1     == U32DivInt(T0, 60)
        Minute == U8(U32ModInt(T1, 60))
        T2     == U32DivInt(T1, 60)
        Hour24 == U8(U32ModInt(T2, 24))
        f      == getTimeFormat(m)
        Hour   == IF f.ret = DS1390_FORMAT_12H
                  THEN (IF Hour24 = 0 THEN 12
                        ELSE IF Hour24 = 12 THEN 12
                        ELSE IF Hour24 < 12 THEN Hour24
                        ELSE U8(Hour24 - 12))
                  ELSE Hour24
        AmPm   == IF f.ret = DS1390_FORMAT_12H
                  THEN (IF Hour24 = 0 THEN DS1390_AM
                        ELSE IF Hour24 = 12 THEN DS1390_PM
                        ELSE IF Hour24 < 12 THEN DS1390_AM
                        ELSE DS1390_PM)
                  ELSE DateTime.AmPm
        T3     == U32ToInt(U32DivInt(T2, 24))
        Wday   == WdayOfDays(T3)
        y      == YearLoop(T3)
        Days   == y.Days - (IF LEAP_YEAR(y.Year) THEN 366 ELSE 365)
        T4     == T3 - Days
        d      == DayLoop(0, y.Year, T4)
    IN  [m        |-> f.m,
         DateTime |-> [DateTime EXCEPT !.Second = Second, !.Minute = Minute,
                                       !.Hour = Hour, !.AmPm = AmPm, !.Wday = Wday,
                                       !.Year = U8(y.Year - 30),
                                       !.Month = U8(d.Month + 1),
                                       !.Day = U8(d.EpochTime + 1)]]

(***************************************************************************)
(* Register accessors                                                      *)
(***************************************************************************)
getValidation(m) ==
    LET r == readByte(m, DS1390_ADDR_READ_STS)
    IN  [m   |-> r.m,
         ret |-> IF ShiftRight(BitAnd(r.ret, DS1390_MASK_OSF), 7) = 1 THEN FALSE ELSE TRUE]

\* setValidation that writes the status register back as it was read
setValidation_KeepsOSF(m) ==
    LET r == readByte(m, DS1390_ADDR_READ_STS)
    IN  writeByte(r.m, DS1390_ADDR_WRITE_STS, r.ret)

setValidation(m) ==
    LET r == readByte(m, DS1390_ADDR_READ_STS)
    IN  writeByte(r.m, DS1390_ADDR_WRITE_STS, BitClear(r.ret, DS1390_MASK_OSF))

\* setTimeFormat that writes the format bit alone instead of the modified register
setTimeFormat_DropsHour(m, Format) ==
    LET r      == readByte(m, DS1390_ADDR_READ_HRS)
        HrsReg == r.ret
    IN  IF Format = ShiftRight(BitAnd(HrsReg, DS1390_MASK_FORMAT), 6)
        THEN [m |-> r.m, ret |-> FALSE]
        ELSE IF Format # DS1390_FORMAT_24H /\ Format # DS1390_FORMAT_12H
        THEN [m |-> r.m, ret |-> FALSE]
        ELSE [m   |-> setValidation(writeByte(r.m, DS1390_ADDR_WRITE_HRS,
                                              ShiftLeft(Format, 6))),
              ret |-> TRUE]

setTimeFormat(m, Format) ==
    LET r      == readByte(m, DS1390_ADDR_READ_HRS)
        HrsReg == r.ret
    IN  IF Format = ShiftRight(BitAnd(HrsReg, DS1390_MASK_FORMAT), 6)
        THEN [m |-> r.m, ret |-> FALSE]
        ELSE IF Format # DS1390_FORMAT_24H /\ Format # DS1390_FORMAT_12H
        THEN [m |-> r.m, ret |-> FALSE]
        ELSE LET New == IF Format = DS1390_FORMAT_24H
                        THEN BitClear(HrsReg, DS1390_MASK_FORMAT)
                        ELSE BitOr(HrsReg, DS1390_MASK_FORMAT)
             IN  [m   |-> setValidation(writeByte(r.m, DS1390_ADDR_WRITE_HRS, New)),
                  ret |-> TRUE]

\* the 8-byte burst read of getDateTimeAll: one select, the address, 8 transfers, one deselect
readFrame(m) ==
    [m EXCEPT !.log = @ \o <<Select, Transfer(DS1390_ADDR_READ_HSEC, 0)>>
                        \o [i \in 1 .. 8 |-> Transfer(255, m.reg[i - 1])]
                        \o <<Deselect>>]

\* getDateTimeAll that masks the hour with 0x1F in both formats
getDateTimeAll_MasksHour12(m, DateTime) ==
    LET Buffer == [Hsecond |-> m.reg[0], Second |-> m.reg[1], Minute |-> m.reg[2],
                   Hour |-> m.reg[3], Wday |-> m.reg[4], Day |-> m.reg[5],
                   Month |-> m.reg[6], Year |-> m.reg[7]]
        Is24   == ShiftRight(BitAnd(Buffer.Hour, DS1390_MASK_FORMAT), 5) = DS1390_FORMAT_24H
    IN  [m        |-> readFrame(m),
         DateTime |->
            [Hour    |-> bcd2dec(BitAnd(Buffer.Hour, 31)),
             AmPm    |-> IF Is24 THEN 0
                         ELSE ShiftRight(BitAnd(Buffer.Hour, DS1390_MASK_AMPM), 5),
             Hsecond |-> bcd2dec(Buffer.Hsecond),
             Second  |-> bcd2dec(Buffer.Second),
             Minute  |-> bcd2dec(Buffer.Minute),
             Wday    |-> bcd2dec(Buffer.Wday),
             Day     |-> bcd2dec(Buffer.Day),
             Month   |-> bcd2dec(BitAnd(Buffer.Month, 31)),
             Year    |-> bcd2dec(Buffer.Year),
             Century |-> ShiftRight(BitAnd(Buffer.Month, DS1390_MASK_CENTURY), 7)]]

getDateTimeAll(m, DateTime) ==
    LET Buffer == [Hsecond |-> m.reg[0], Second |-> m.reg[1], Minute |-> m.reg[2],
                   Hour |-> m.reg[3], Wday |-> m.reg[4], Day |-> m.reg[5],
                   Month |-> m.reg[6], Year |-> m.reg[7]]
        Is24   == ShiftRight(BitAnd(Buffer.Hour, DS1390_MASK_FORMAT), 5) = DS1390_FORMAT_24H
    IN  [m        |-> readFrame(m),
         DateTime |->
            [Hour    |-> IF Is24 THEN bcd2dec(BitAnd(Buffer.Hour, 63))
                         ELSE bcd2dec(BitAnd(Buffer.Hour, 31)),
             AmPm    |-> IF Is24 THEN 0
                         ELSE ShiftRight(BitAnd(Buffer.Hour, DS1390_MASK_AMPM), 5),
             Hsecond |-> bcd2dec(Buffer.Hsecond),
             Second  |-> bcd2dec(Buffer.Second),
             Minute  |-> bcd2dec(Buffer.Minute),
             Wday    |-> bcd2dec(Buffer.Wday),
             Day     |-> bcd2dec(Buffer.Day),
             Month   |-> bcd2dec(BitAnd(Buffer.Month, 31)),
             Year    |-> bcd2dec(Buffer.Year),
             Century |-> ShiftRight(BitAnd(Buffer.Month, DS1390_MASK_CENTURY), 7)]]

\* writeFrame that sends every byte of the frame in a transaction of its own
writeFrame_BytePerBracket(m, Buffer) ==
    LET Bytes == <<Buffer.Hsecond, Buffer.Second, Buffer.Minute, Buffer.Hour,
                   Buffer.Wday, Buffer.Day, Buffer.Month, Buffer.Year>>
        One(i) == <<Select, Transfer(DS1390_ADDR_WRITE_HSEC + (i - 1), 0),
                    Transfer(Bytes[i], 0), Deselect>>
    IN  [reg |-> [a \in RegAddrs |-> IF a < 8 THEN Bytes[a + 1] ELSE m.reg[a]],
         log |-> m.log \o One(1) \o One(2) \o One(3) \o One(4)
                       \o One(5) \o One(6) \o One(7) \o One(8)]

\* the 8-byte burst write of setDateTimeAll: the device stores byte i at register i-1
writeFrame(m, Buffer) ==
    LET Bytes == <<Buffer.Hsecond, Buffer.Second, Buffer.Minute, Buffer.Hour,
                   Buffer.Wday, Buffer.Day, Buffer.Month, Buffer.Year>>
    IN  [reg |-> [a \in RegAddrs |-> IF a < 8 THEN Bytes[a + 1] ELSE m.reg[a]],
         log |-> m.log \o <<Select, Transfer(DS1390_ADDR_WRITE_HSEC, 0)>>
                       \o [i \in 1 .. 8 |-> Transfer(Bytes[i], 0)]
                       \o <<Deselect>>]

setDateTimeAll(m, DateTime) ==
    LET f      == getTimeFormat(m)
        Buffer ==
            [Hsecond |-> dec2bcd(constrain(DateTime.Hsecond, 0, 99)),
             Second  |-> dec2bcd(constrain(DateTime.Second, 0, 59)),
             Minute  |-> dec2bcd(constrain(DateTime.Minute, 0, 59)),
             Wday    |-> dec2bcd(constrain(DateTime.Wday, 1, 7)),
             Day     |-> dec2bcd(constrain(DateTime.Day, 1, 31)),
             Year    |-> dec2bcd(constrain(DateTime.Year, 0, 99)),
             Hour    |-> IF f.ret = DS1390_FORMAT_24H
                         THEN dec2bcd(constrain(DateTime.Hour, 0, 23))
                         ELSE U8(BitOr(BitOr(dec2bcd(constrain(DateTime.Hour, 1, 12)),
                                             ShiftLeft(DateTime.AmPm, 5)),
                                       DS1390_MASK_FORMAT)),
             Month   |-> U8(BitOr(dec2bcd(constrain(DateTime.Month, 1, 12)),
                                  ShiftLeft(DateTime.Century, 7)))]
    IN  setValidation(writeFrame(f.m, Buffer))

getDateTimeHSeconds(m) ==
    LET r == readByte(m, DS1390_ADDR_READ_HSEC) IN [m |-> r.m, ret |-> bcd2dec(r.ret)]

setDateTimeHSeconds(m, Value) ==
    setValidation(writeByte(m, DS1390_ADDR_WRITE_HSEC, dec2bcd(constrain(Value, 0, 99))))

getDateTimeSeconds(m) ==
    LET r == readByte(m, DS1390_ADDR_READ_SEC) IN [m |-> r.m, ret |-> bcd2dec(r.ret)]

\* setDateTimeSeconds without the comparison against the stored value
setDateTimeSeconds_AlwaysWrites(m, Value) ==
    LET g == getDateTimeSeconds(m)
    IN  [m   |-> setValidation(writeByte(g.m, DS1390_ADDR_WRITE_SEC,
                                         dec2bcd(constrain(Value, 0, 59)))),
         ret |-> TRUE]

setDateTimeSeconds(m, Value) ==
    LET g == getDateTimeSeconds(m)
    IN  IF Value = g.ret THEN [m |-> g.m, ret |-> FALSE]
        ELSE [m   |-> setValidation(writeByte(g.m, DS1390_ADDR_WRITE_SEC,
                                              dec2bcd(constrain(Value, 0, 59)))),
              ret |-> TRUE]

getDateTimeMinutes(m) ==
    LET r == readByte(m, DS1390_ADDR_READ_MIN) IN [m |-> r.m, ret |-> bcd2dec(r.ret)]

\* setDateTimeMinutes that reports true also when it skipped the write
setDateTimeMinutes_AlwaysTrue(m, Value) ==
    LET g == getDateTimeMinutes(m)
    IN  IF Value = g.ret THEN [m |-> g.m, ret |-> TRUE]
        ELSE [m   |-> setValidation(writeByte(g.m, DS1390_ADDR_WRITE_MIN,
                                              dec2bcd(constrain(Value, 0, 59)))),
              ret |-> TRUE]

setDateTimeMinutes(m, Value) ==
    LET g == getDateTimeMinutes(m)
    IN  IF Value = g.ret THEN [m |-> g.m, ret |-> FALSE]
        ELSE [m   |-> setValidation(writeByte(g.m, DS1390_ADDR_WRITE_MIN,
                                              dec2bcd(constrain(Value, 0, 59)))),
              ret |-> TRUE]

getDateTimeHours(m) ==
    LET r      == readByte(m, DS1390_ADDR_READ_HRS)
        Buffer == r.ret
    IN  [m   |-> r.m,
         ret |-> IF ShiftRight(BitAnd(Buffer, DS1390_MASK_FORMAT), 5) = DS1390_FORMAT_24H
                 THEN bcd2dec(BitAnd(Buffer, 63))
                 ELSE bcd2dec(BitAnd(Buffer, 31))]

\* setDateTimeHours that leaves the format bit out of the 12h register value
setDateTimeHours_NoFormatBit(m, Value) ==
    LET g == getDateTimeHours(m)
    IN  IF Value = g.ret THEN [m |-> g.m, ret |-> FALSE]
        ELSE LET f == getTimeFormat(g.m)
             IN  IF f.ret = DS1390_FORMAT_24H
                 THEN [m   |-> setValidation(writeByte(f.m, DS1390_ADDR_WRITE_HRS,
                                                       dec2bcd(constrain(Value, 0, 23)))),
                       ret |-> TRUE]
                 ELSE LET r    == readByte(f.m, DS1390_ADDR_READ_HRS)
                          AmPm == ShiftRight(BitAnd(r.ret, DS1390_MASK_AMPM), 5)
                          New  == U8(BitOr(dec2bcd(constrain(Value, 1, 12)), ShiftLeft(AmPm, 5)))
                      IN  [m   |-> setValidation(writeByte(r.m, DS1390_ADDR_WRITE_HRS, New)),
                           ret |-> TRUE]

setDateTimeHours(m, Value) ==
    LET g == getDateTimeHours(m)
    IN  IF Value = g.ret THEN [m |-> g.m, ret |-> FALSE]
        ELSE LET f == getTimeFormat(g.m)
             IN  IF f.ret = DS1390_FORMAT_24H
                 THEN [m   |-> setValidation(writeByte(f.m, DS1390_ADDR_WRITE_HRS,
                                                       dec2bcd(constrain(Value, 0, 23)))),
                       ret |-> TRUE]
                 ELSE LET r    == readByte(f.m, DS1390_ADDR_READ_HRS)
                          AmPm == ShiftRight(BitAnd(r.ret, DS1390_MASK_AMPM), 5)
                          New  == U8(BitOr(BitOr(dec2bcd(constrain(Value, 1, 12)),
                                                 ShiftLeft(AmPm, 5)),
                                           DS1390_MASK_FORMAT))
                      IN  [m   |-> setValidation(writeByte(r.m, DS1390_ADDR_WRITE_HRS, New)),
                           ret |-> TRUE]

getDateTimeWday(m) ==
    LET r == readByte(m, DS1390_ADDR_READ_WDAY) IN [m |-> r.m, ret |-> bcd2dec(r.ret)]

setDateTimeWday(m, Value) ==
    LET g == getDateTimeWday(m)
    IN  IF Value = g.ret THEN [m |-> g.m, ret |-> FALSE]
        ELSE [m   |-> setValidation(writeByte(g.m, DS1390_ADDR_WRITE_WDAY,
                                              dec2bcd(constrain(Value, 0, 7)))),
              ret |-> TRUE]

getDateTimeDay(m) ==
    LET r == readByte(m, DS1390_ADDR_READ_DAY) IN [m |-> r.m, ret |-> bcd2dec(r.ret)]

setDateTimeDay(m, Value) ==
    LET g == getDateTimeDay(m)
    IN  IF Value = g.ret THEN [m |-> g.m, ret |-> FALSE]
        ELSE [m   |-> setValidation(writeByte(g.m, DS1390_ADDR_WRITE_DAY,
                                              dec2bcd(constrain(Value, 0, 31)))),
              ret |-> TRUE]

getDateTimeMonth(m) ==
    LET r == readByte(m, DS1390_ADDR_READ_MON)
    IN  [m |-> r.m, ret |-> bcd2dec(BitAnd(r.ret, 31))]

\* setDateTimeMonth that writes the month digits without the century bit it read
setDateTimeMonth_DropsCentury(m, Value) ==
    LET g == getDateTimeMonth(m)
    IN  IF Value = g.ret THEN [m |-> g.m, ret |-> FALSE]
        ELSE LET r   == readByte(g.m, DS1390_ADDR_READ_MON)
                 New == dec2bcd(constrain(Value, 1, 12))
             IN  [m   |-> setValidation(writeByte(r.m, DS1390_ADDR_WRITE_MON, New)),
                  ret |-> TRUE]

setDateTimeMonth(m, Value) ==
    LET g == getDateTimeMonth(m)
    IN  IF Value = g.ret THEN [m |-> g.m, ret |-> FALSE]
        ELSE LET r       == readByte(g.m, DS1390_ADDR_READ_MON)
                 Century == ShiftRight(BitAnd(r.ret, DS1390_MASK_CENTURY), 7)
                 New     == U8(BitOr(dec2bcd(constrain(Value, 1, 12)), ShiftLeft(Century, 7)))
             IN  [m   |-> setValidation(writeByte(r.m, DS1390_ADDR_WRITE_MON, New)),
                  ret |-> TRUE]

getDateTimeYear(m) ==
    LET r == readByte(m, DS1390_ADDR_READ_YRS) IN [m |-> r.m, ret |-> bcd2dec(r.ret)]

setDateTimeYear(m, Value) ==
    LET g == getDateTimeYear(m)
    IN  IF Value = g.ret THEN [m |-> g.m, ret |-> FALSE]
        ELSE [m   |-> setValidation(writeByte(g.m, DS1390_ADDR_WRITE_YRS,
                                              dec2bcd(constrain(Value, 0, 99)))),
              ret |-> TRUE]

getDateTimeAmPm(m) ==
    LET f == getTimeFormat(m)
    IN  IF f.ret = DS1390_FORMAT_24H THEN [m |-> f.m, ret |-> 0]
        ELSE LET r == readByte(f.m, DS1390_ADDR_READ_HRS)
             IN  [m |-> r.m, ret |-> ShiftRight(BitAnd(r.ret, DS1390_MASK_AMPM), 5)]

\* setDateTimeAmPm that writes the flag and the format bit without the hour it read
setDateTimeAmPm_DropsHour(m, Value) ==
    LET f == getTimeFormat(m)
    IN  IF f.ret = DS1390_FORMAT_24H THEN [m |-> f.m, ret |-> FALSE]
        ELSE LET g == getDateTimeAmPm(f.m)
             IN  IF Value = g.ret THEN [m |-> g.m, ret |-> FALSE]
                 ELSE IF Value # DS1390_AM /\ Value # DS1390_PM
                 THEN [m |-> g.m, ret |-> FALSE]
                 ELSE LET h   == getDateTimeHours(g.m)
                          New == U8(BitOr(ShiftLeft(Value, 5), DS1390_MASK_FORMAT))
                      IN  [m   |-> setValidation(writeByte(h.m, DS1390_ADDR_WRITE_HRS, New)),
                           ret |-> TRUE]

\* setDateTimeAmPm without the 24h-format check
setDateTimeAmPm_NoFormatCheck(m, Value) ==
    LET g == getDateTimeAmPm(m)
    IN  IF Value = g.ret THEN [m |-> g.m, ret |-> FALSE]
        ELSE IF Value # DS1390_AM /\ Value # DS1390_PM THEN [m |-> g.m, ret |-> FALSE]
        ELSE LET h   == getDateTimeHours(g.m)
                 New == U8(BitOr(BitOr(dec2bcd(h.ret), ShiftLeft(Value, 5)),
                                 DS1390_MASK_FORMAT))
             IN  [m   |-> setValidation(writeByte(h.m, DS1390_ADDR_WRITE_HRS, New)),
                  ret |-> TRUE]

setDateTimeAmPm(m, Value) ==
    LET f == getTimeFormat(m)
    IN  IF f.ret = DS1390_FORMAT_24H THEN [m |-> f.m, ret |-> FALSE]
        ELSE LET g == getDateTimeAmPm(f.m)
             IN  IF Value = g.ret THEN [m |-> g.m, ret |-> FALSE]
                 ELSE IF Value # DS1390_AM /\ Value # DS1390_PM
                 THEN [m |-> g.m, ret |-> FALSE]
                 ELSE LET h   == getDateTimeHours(g.m)
                          New == U8(BitOr(BitOr(dec2bcd(h.ret), ShiftLeft(Value, 5)),
                                          DS1390_MASK_FORMAT))
                      IN  [m   |-> setValidation(writeByte(h.m, DS1390_ADDR_WRITE_HRS, New)),
                           ret |-> TRUE]

getDateTimeCentury(m) ==
    LET r == readByte(m, DS1390_ADDR_READ_MON)
    IN  [m |-> r.m, ret |-> ShiftRight(BitAnd(r.ret, DS1390_MASK_CENTURY), 7)]

setDateTimeCentury(m, Value) ==
    LET g == getDateTimeCentury(m)
    IN  IF Value = g.ret THEN [m |-> g.m, ret |-> FALSE]
        ELSE LET BufferMonth == getDateTimeMonth(g.m)
                 mon         == getDateTimeMonth(BufferMonth.m)
                 New         == U8(BitOr(dec2bcd(mon.ret), ShiftLeft(constrain(Value, 0, 1), 7)))
             IN  [m   |-> setValidation(writeByte(mon.m, DS1390_ADDR_WRITE_MON, New)),
                  ret |-> TRUE]

getTrickleChargerMode(m) == readByte(m, DS1390_ADDR_READ_TCH)

\* the modes setTrickleChargerMode accepts
TrickleChargerModes ==
    {DS1390_TCH_DISABLE, DS1390_TCH_250_NO_D, DS1390_TCH_250_D, DS1390_TCH_2K_NO_D,
     DS1390_TCH_2K_D, DS1390_TCH_4K_NO_D, DS1390_TCH_4K_D}

setTrickleChargerMode(m, Mode) ==
    LET g == getTrickleChargerMode(m)
    IN  IF Mode = g.ret THEN [m |-> g.m, ret |-> FALSE]
        ELSE IF Mode \notin TrickleChargerModes THEN [m |-> g.m, ret |-> FALSE]
        ELSE [m   |-> setValidation(writeByte(g.m, DS1390_ADDR_WRITE_TCH, Mode)),
              ret |-> TRUE]

\* getDateTimeEpoch: fills _DateTimeBuffer, which dateTimeToEpoch then modifies in place
getDateTimeEpoch(m, Buffer, Timezone) ==
    LET g == getDateTimeAll(m, Buffer)
        r == dateTimeToEpoch(g.m, g.DateTime, Timezone)
    IN  [m |-> r.m, buf |-> r.DateTime, ret |-> r.ret]

\* setDateTimeEpoch: converts into _DateTimeBuffer and writes it
setDateTimeEpoch(m, Buffer, Epoch, Timezone) ==
    LET r == epochToDateTime(m, Epoch, Buffer, Timezone)
    IN  [m |-> setDateTimeAll(r.m, r.DateTime), buf |-> r.DateTime]

(***************************************************************************)
(* The driver as a state machine: one action per public operation          *)
(***************************************************************************)
\* number of public operations in one behaviour
MaxSteps == 2

\* the codec harness before any conversion
NoCodec == [dec |-> 0, bcd |-> 0, back |-> 0]

\* the operations that write the whole calendar frame
FrameWriters == {"setDateTimeAll", "setDateTimeEpoch"}

\* no frame write came directly before
NoFrameWrite == [op |-> "none", arg |-> 0]

\* call.ret is <<>> for a void operation and <<b>> for one returning the bool b;
\* call.val is what a getter returned or stored through its reference argument;
\* call.after is the frame write (name and argument) the operation directly followed, if any
NoCall ==
    [op |-> "none", arg |-> 0, ret |-> <<>>, val |-> 0,
     pre |-> [a \in RegAddrs |-> 0], log |-> <<>>, after |-> NoFrameWrite]

\* a register file from its calendar frame, status and trickle-charger bytes
RegFile(Frame, Sts, Tch) ==
    [a \in RegAddrs |->
        IF a < 8 THEN Frame[a + 1]
        ELSE IF a = DS1390_ADDR_READ_STS THEN Sts
        ELSE IF a = DS1390_ADDR_READ_TCH THEN Tch
        ELSE 0]

\* what the device may hold when the driver starts: a calendar frame (BCD, valid for its
\* format), the status register and the trickle-charger register.
\* 2000-01-01 Sat 00:00:00.00 (24h) and 2000-01-01 Sat 12:00:00.00 AM (12h) with the
\* oscillator-stop flag clear and the charger disabled; 2099-12-31 Sun 23:59:59.99 (24h)
\* and 2099-12-31 Sun 11:59:59.99 PM (12h), century bit set, with the oscillator-stop flag
\* and both alarm flags set and the charger at 250 ohm
InitDevices ==
    {<<<<0, 0, 0, 0, 7, 1, 1, 0>>, 0, DS1390_TCH_DISABLE>>,
     <<<<0, 0, 0, 82, 7, 1, 1, 0>>, 0, DS1390_TCH_DISABLE>>,
     <<<<153, 89, 89, 35, 1, 49, 146, 153>>, 131, DS1390_TCH_250_NO_D>>,
     <<<<153, 89, 89, 113, 1, 49, 146, 153>>, 131, DS1390_TCH_250_NO_D>>}

Init ==
    /\ reg \in {RegFile(d[1], d[2], d[3]) : d \in InitDevices}
    /\ buf = NewDateTime
    /\ call = NoCall
    /\ steps = 0
    /\ pc = "idle"
    /\ cal = NewDateTime
    /\ tz = 0
    /\ arg = NewDateTime
    /\ epoch = ToU32(0)
    /\ out = NewDateTime
    /\ codec = NoCodec

\* the machine a public operation starts on: the device as it is, an empty bus trace
M0 == [reg |-> reg, log |-> <<>>]

\* a public operation may be called
Ready == pc = "idle" /\ steps < MaxSteps

\* bookkeeping common to all operations
Perform(op, a, m, r, v, b) ==
    /\ reg' = m.reg
    /\ buf' = b
    /\ call' = [op |-> op, arg |-> a, ret |-> r, val |-> v, pre |-> reg, log |-> m.log,
                after |-> IF call.op \in FrameWriters
                          THEN [op |-> call.op, arg |-> call.arg]
                          ELSE NoFrameWrite]
    /\ steps' = steps + 1
    /\ UNCHANGED <<pc, cal, tz, arg, epoch, out, codec>>

FormatArgs == {DS1390_FORMAT_24H, DS1390_FORMAT_12H, 2}
HSecondArgs == {0, 99, 100}
SecondArgs == {0, 59, 60, 255}
HourArgs == {0, 1, 12, 13, 23, 24}
WdayArgs == {0, 1, 7, 8}
DayArgs == {0, 1, 31, 32}
MonthArgs == {0, 1, 12, 13}
YearArgs == {0, 99, 100}
AmPmArgs == {DS1390_AM, DS1390_PM, 2}
CenturyArgs == {0, 1, 2}
TrickleArgs == {0, 1, 41, 165, 169, 171}
TimezoneArgs == {0, -12}

\* structures handed to setDateTimeAll: in range for 24h, in range for 12h, out of range,
\* the greatest values of 24h, the least values of 12h
DateTimeArgs ==
    {[Hsecond |-> 99, Second |-> 59, Minute |-> 59, Hour |-> 23, Wday |-> 7,
      Day |-> 31, Month |-> 12, Year |-> 99, AmPm |-> 0, Century |-> 1],
     [Hsecond |-> 0, Second |-> 0, Minute |-> 0, Hour |-> 1, Wday |-> 1,
      Day |-> 1, Month |-> 1, Year |-> 0, AmPm |-> 0, Century |-> 0],
     [Hsecond |-> 50, Second |-> 30, Minute |-> 15, Hour |-> 13, Wday |-> 3,
      Day |-> 29, Month |-> 2, Year |-> 4, AmPm |-> 0, Century |-> 0],
     [Hsecond |-> 1, Second |-> 2, Minute |-> 3, Hour |-> 12, Wday |-> 5,
      Day |-> 15, Month |-> 10, Year |-> 38, AmPm |-> 1, Century |-> 1],
     [Hsecond |-> 100, Second |-> 60, Minute |-> 61, Hour |-> 24, Wday |-> 0,
      Day |-> 0, Month |-> 13, Year |-> 100, AmPm |-> 2, Century |-> 3]}

\* timestamps handed to setDateTimeEpoch: 946684800, 2000-02-29 12:00:00, 4102444799
EpochArgs == {U32OfDaySec(10957, 0), U32OfDaySec(11016, 43200), U32OfDaySec(47481, 86399)}

SetTimeFormat ==
    /\ Ready
    /\ \E Format \in FormatArgs :
           LET r == setTimeFormat(M0, Format)
           IN  Perform("setTimeFormat", Format, r.m, <<r.ret>>, 0, buf)

GetDateTimeAll ==
    /\ Ready
    /\ LET r == getDateTimeAll(M0, NewDateTime)
       IN  Perform("getDateTimeAll", 0, r.m, <<>>, r.DateTime, buf)

SetDateTimeAll ==
    /\ Ready
    /\ \E DateTime \in DateTimeArgs :
           Perform("setDateTimeAll", DateTime, setDateTimeAll(M0, DateTime), <<>>, 0, buf)

SetDateTimeHSeconds ==
    /\ Ready
    /\ \E Value \in HSecondArgs :
           Perform("setDateTimeHSeconds", Value, setDateTimeHSeconds(M0, Value), <<>>, 0, buf)

SetDateTimeSeconds ==
    /\ Ready
    /\ \E Value \in SecondArgs :
           LET r == setDateTimeSeconds(M0, Value)
           IN  Perform("setDateTimeSeconds", Value, r.m, <<r.ret>>, 0, buf)

SetDateTimeMinutes ==
    /\ Ready
    /\ \E Value \in SecondArgs :
           LET r == setDateTimeMinutes(M0, Value)
           IN  Perform("setDateTimeMinutes", Value, r.m, <<r.ret>>, 0, buf)

SetDateTimeHours ==
    /\ Ready
    /\ \E Value \in HourArgs :
           LET r == setDateTimeHours(M0, Value)
           IN  Perform("setDateTimeHours", Value, r.m, <<r.ret>>, 0, buf)

SetDateTimeWday ==
    /\ Ready
    /\ \E Value \in WdayArgs :
           LET r == setDateTimeWday(M0, Value)
           IN  Perform("setDateTimeWday", Value, r.m, <<r.ret>>, 0, buf)

SetDateTimeDay ==
    /\ Ready
    /\ \E Value \in DayArgs :
           LET r == setDateTimeDay(M0, Value)
           IN  Perform("setDateTimeDay", Value, r.m, <<r.ret>>, 0, buf)

SetDateTimeMonth ==
    /\ Ready
    /\ \E Value \in MonthArgs :
           LET r == setDateTimeMonth(M0, Value)
           IN  Perform("setDateTimeMonth", Value, r.m, <<r.ret>>, 0, buf)

SetDateTimeYear ==
    /\ Ready
    /\ \E Value \in YearArgs :
           LET r == setDateTimeYear(M0, Value)
           IN  Perform("setDateTimeYear", Value, r.m, <<r.ret>>, 0, buf)

SetDateTimeAmPm ==
    /\ Ready
    /\ \E Value \in AmPmArgs :
           LET r == setDateTimeAmPm(M0, Value)
           IN  Perform("setDateTimeAmPm", Value, r.m, <<r.ret>>, 0, buf)

SetDateTimeCentury ==
    /\ Ready
    /\ \E Value \in CenturyArgs :
           LET r == setDateTimeCentury(M0, Value)
           IN  Perform("setDateTimeCentury", Value, r.m, <<r.ret>>, 0, buf)

SetTrickleChargerMode ==
    /\ Ready
    /\ \E Mode \in TrickleArgs :
           LET r == setTrickleChargerMode(M0, Mode)
           IN  Perform("setTrickleChargerMode", Mode, r.m, <<r.ret>>, 0, buf)

GetDateTimeEpoch ==
    /\ Ready
    /\ \E Timezone \in TimezoneArgs :
           LET r == getDateTimeEpoch(M0, buf, Timezone)
           IN  Perform("getDateTimeEpoch", Timezone, r.m, <<>>, r.ret, r.buf)

SetDateTimeEpoch ==
    /\ Ready
    /\ \E Epoch \in EpochArgs, Timezone \in TimezoneArgs :
           LET r == setDateTimeEpoch(M0, buf, Epoch, Timezone)
           IN  Perform("setDateTimeEpoch", <<Epoch, Timezone>>, r.m, <<>>, 0, r.buf)

Next ==
    \/ SetTimeFormat
    \/ GetDateTimeAll
    \/ SetDateTimeAll
    \/ SetDateTimeHSeconds
    \/ SetDateTimeSeconds
    \/ SetDateTimeMinutes
    \/ SetDateTimeHours
    \/ SetDateTimeWday
    \/ SetDateTimeDay
    \/ SetDateTimeMonth
    \/ SetDateTimeYear
    \/ SetDateTimeAmPm
    \/ SetDateTimeCentury
    \/ SetTrickleChargerMode
    \/ GetDateTimeEpoch
    \/ SetDateTimeEpoch

Spec == Init /\ [][Next]_vars

(***************************************************************************)
(* Properties of the register accessors                                    *)
(***************************************************************************)
\* the device before and after the last call, with an empty bus trace
Before == [reg |-> call.pre, log |-> <<>>]

After == [reg |-> reg, log |-> <<>>]

Changed == call.ret = <<TRUE>>

Unchanged == call.ret = <<FALSE>>

\* position i of a bus trace holds the address byte of a transaction
IsAddressByte(log, i) == i > 1 /\ log[i].kind = "transfer" /\ log[i - 1].kind = "select"

\* the address bytes of the write transactions of a bus trace
WriteAddressBytes(log) == {i \in 1 .. Len(log) : IsAddressByte(log, i) /\ log[i].mosi >= 128}

NoRegisterWrite(log) == WriteAddressBytes(log) = {}

\* the last write transaction of the trace writes one byte with the OSF bit clear to the
\* status register
LastWriteIsValidation(log) ==
    /\ WriteAddressBytes(log) # {}
    /\ LET last == CHOOSE i \in WriteAddressBytes(log) : \A j \in WriteAddressBytes(log) : j <= i
       IN  /\ log[last].mosi = DS1390_ADDR_WRITE_STS
           /\ Len(log) = last + 2
           /\ log[last + 1].kind = "transfer"
           /\ BitAnd(log[last + 1].mosi, DS1390_MASK_OSF) = 0
           /\ log[last + 2].kind = "deselect"

\* the value a field's getter returns on machine m, by setter name
StoredValue(op, m) ==
    CASE op = "setDateTimeHSeconds" -> getDateTimeHSeconds(m).ret
      [] op = "setDateTimeSeconds" -> getDateTimeSeconds(m).ret
      [] op = "setDateTimeMinutes" -> getDateTimeMinutes(m).ret
      [] op = "setDateTimeHours" -> getDateTimeHours(m).ret
      [] op = "setDateTimeWday" -> getDateTimeWday(m).ret
      [] op = "setDateTimeDay" -> getDateTimeDay(m).ret
      [] op = "setDateTimeMonth" -> getDateTimeMonth(m).ret
      [] op = "setDateTimeYear" -> getDateTimeYear(m).ret
      [] op = "setDateTimeCentury" -> getDateTimeCentury(m).ret
      [] op = "setDateTimeAmPm" -> getDateTimeAmPm(m).ret
      [] op = "setTimeFormat" -> getTimeFormat(m).ret
      [] op = "setTrickleChargerMode" -> getTrickleChargerMode(m).ret

BoolSetters ==
    {"setDateTimeSeconds", "setDateTimeMinutes", "setDateTimeHours", "setDateTimeWday",
     "setDateTimeDay", "setDateTimeMonth", "setDateTimeYear", "setDateTimeCentury",
     "setDateTimeAmPm", "setTimeFormat", "setTrickleChargerMode"}

FieldSetters == BoolSetters \cup {"setDateTimeHSeconds"}

\* C4 as stated: every field setter, hundredths included, called with the value currently
\* stored for its field reports Unchanged and issues no register write.
C4_EverySetterSkipsEqualValue ==
    (call.op \in FieldSetters /\ call.arg = StoredValue(call.op, Before)) =>
        /\ Unchanged
        /\ NoRegisterWrite(call.log)

\* C4, amended: every field setter other than setDateTimeHSeconds (seconds, minutes, hours,
\* weekday, day, month, year, century, AM/PM, time format, trickle-charger mode), called
\* with the value currently stored for its field, reports Unchanged and issues no register
\* write, neither to the field register nor to the status register.
C4_BoolSettersSkipEqualValue ==
    (call.op \in BoolSetters /\ call.arg = StoredValue(call.op, Before)) =>
        /\ Unchanged
        /\ NoRegisterWrite(call.log)
        /\ reg = call.pre

C4_Witness ==
    /\ call.op = "setDateTimeSeconds"
    /\ call.arg = 59
    /\ getDateTimeSeconds(Before).ret = 59
    /\ Unchanged
    /\ NoRegisterWrite(call.log)

\* the last call is one of the operations that write a calendar or configuration register
WritingCall ==
    \/ call.op \in BoolSetters /\ Changed
    \/ call.op \in {"setDateTimeHSeconds", "setDateTimeAll", "setDateTimeEpoch"}

\* C5: after any operation that writes a calendar or configuration register, whatever the
\* validity flag was before, getValidation returns true, and the validity write is the
\* last register write of the operation.
C5_WriteAssertsValidity ==
    WritingCall =>
        /\ getValidation(After).ret = TRUE
        /\ LastWriteIsValidation(call.log)

C5_Witness ==
    /\ call.op = "setDateTimeMinutes"
    /\ Changed
    /\ getValidation(Before).ret = FALSE
    /\ getValidation(After).ret = TRUE
    /\ LastWriteIsValidation(call.log)

\* the decoded hour and AM/PM flag of machine m are in the range of m's format
HourInFormatRange(m) ==
    /\ getTimeFormat(m).ret = DS1390_FORMAT_24H =>
           getDateTimeHours(m).ret \in 0 .. 23 /\ getDateTimeAmPm(m).ret = 0
    /\ getTimeFormat(m).ret = DS1390_FORMAT_12H =>
           getDateTimeHours(m).ret \in 1 .. 12

\* C6: in every state reached from a device whose hour is valid for its format, the
\* decoded hour lies in 0..23 in 24H and in 1..12 in 12H, and the decoded amPm is 0 in 24H.
C6_HourAlwaysInFormatRange == pc = "idle" => HourInFormatRange(After)

\* C7: setDateTimeAmPm(v) returns false and writes no register whenever the device is in
\* 24H format, and whenever v is neither AM nor PM in 12H format.
C7_AmPmRejected ==
    (/\ call.op = "setDateTimeAmPm"
     /\ \/ getTimeFormat(Before).ret = DS1390_FORMAT_24H
        \/ call.arg \notin {DS1390_AM, DS1390_PM}) =>
        /\ Unchanged
        /\ NoRegisterWrite(call.log)
        /\ reg = call.pre

C7_Witness ==
    /\ call.op = "setDateTimeAmPm"
    /\ call.arg = DS1390_PM
    /\ getTimeFormat(Before).ret = DS1390_FORMAT_24H
    /\ Unchanged
    /\ NoRegisterWrite(call.log)

\* C8: after an accepted setDateTimeHours or setDateTimeAmPm made in 12H format, and after
\* setDateTimeAll made in 12H format, getTimeFormat returns 12H.
C8_TwelveHourWritesKeepFormat ==
    (/\ \/ call.op \in {"setDateTimeHours", "setDateTimeAmPm"} /\ Changed
        \/ call.op = "setDateTimeAll"
     /\ getTimeFormat(Before).ret = DS1390_FORMAT_12H) =>
        getTimeFormat(After).ret = DS1390_FORMAT_12H

C8_Witness ==
    /\ getTimeFormat(Before).ret = DS1390_FORMAT_12H
    /\ call.op = "setDateTimeHours"
    /\ Changed
    /\ reg[DS1390_ADDR_READ_HRS] # call.pre[DS1390_ADDR_READ_HRS]
    /\ getTimeFormat(After).ret = DS1390_FORMAT_12H

\* the trickle-charger modes of the documentation: 0x00, 0xA5, 0xA9, 0xA6, 0xAA, 0xA7, 0xAB
DocumentedTrickleModes == {0, 165, 169, 166, 170, 167, 171}

\* C9: setTrickleChargerMode(m) returns false and writes nothing for every byte outside
\* the documented set, and accepts and writes verbatim every byte of the documented set
\* that differs from the stored mode.
C9_TrickleModeDocumentedSet ==
    call.op = "setTrickleChargerMode" =>
        /\ call.arg \notin DocumentedTrickleModes =>
               Unchanged /\ NoRegisterWrite(call.log)
        /\ (call.arg \in DocumentedTrickleModes /\ call.arg # call.pre[DS1390_ADDR_READ_TCH]) =>
               Changed /\ reg[DS1390_ADDR_READ_TCH] = call.arg

\* C10: setTimeFormat(mode) returns false and writes nothing when mode is the current format
\* or outside {24H, 12H}; otherwise it changes only bit 0x40 of the Hours register, leaves
\* every other calendar register unchanged, marks validity true and returns true, and
\* getTimeFormat then returns mode.
C10_SetTimeFormatEffect ==
    call.op = "setTimeFormat" =>
        IF \/ call.arg = getTimeFormat(Before).ret
           \/ call.arg \notin {DS1390_FORMAT_24H, DS1390_FORMAT_12H}
        THEN /\ Unchanged
             /\ NoRegisterWrite(call.log)
             /\ reg = call.pre
        ELSE /\ Changed
             /\ BitClear(reg[DS1390_ADDR_READ_HRS], DS1390_MASK_FORMAT)
                    = BitClear(call.pre[DS1390_ADDR_READ_HRS], DS1390_MASK_FORMAT)
             /\ reg[DS1390_ADDR_READ_HRS] # call.pre[DS1390_ADDR_READ_HRS]
             /\ \A a \in RegAddrs \ {DS1390_ADDR_READ_HRS, DS1390_ADDR_READ_STS} :
                    reg[a] = call.pre[a]
             /\ getValidation(After).ret = TRUE
             /\ getTimeFormat(After).ret = call.arg

C10_Witness ==
    /\ call.op = "setTimeFormat"
    /\ call.arg = DS1390_FORMAT_12H
    /\ call.pre[DS1390_ADDR_READ_HRS] = 35
    /\ reg[DS1390_ADDR_READ_HRS] = 99
    /\ Changed
    /\ getValidation(After).ret = TRUE

\* the setters of the calendar fields that hold a number
RangedSetters ==
    {"setDateTimeHSeconds", "setDateTimeSeconds", "setDateTimeMinutes", "setDateTimeHours",
     "setDateTimeWday", "setDateTimeDay", "setDateTimeMonth", "setDateTimeYear"}

\* the valid range <<low, high>> of the data model for the field a setter writes,
\* under time format Format
ValidBounds(op, Format) ==
    CASE op = "setDateTimeHSeconds" -> <<0, 99>>
      [] op = "setDateTimeSeconds" -> <<0, 59>>
      [] op = "setDateTimeMinutes" -> <<0, 59>>
      [] op = "setDateTimeHours" -> IF Format = DS1390_FORMAT_24H THEN <<0, 23>> ELSE <<1, 12>>
      [] op = "setDateTimeWday" -> <<1, 7>>
      [] op = "setDateTimeDay" -> <<1, 31>>
      [] op = "setDateTimeMonth" -> <<1, 12>>
      [] op = "setDateTimeYear" -> <<0, 99>>

\* value v lies in the range b = <<low, high>>
InBounds(v, b) == v >= b[1] /\ v <= b[2]

\* the field setter op writes, read from a DS1390DateTime
FieldOf(op, DateTime) ==
    CASE op = "setDateTimeHSeconds" -> DateTime.Hsecond
      [] op = "setDateTimeSeconds" -> DateTime.Second
      [] op = "setDateTimeMinutes" -> DateTime.Minute
      [] op = "setDateTimeHours" -> DateTime.Hour
      [] op = "setDateTimeWday" -> DateTime.Wday
      [] op = "setDateTimeDay" -> DateTime.Day
      [] op = "setDateTimeMonth" -> DateTime.Month
      [] op = "setDateTimeYear" -> DateTime.Year

\* the field of setter op holds, on machine m, a value of its valid range, and holds the
\* nearest bound of that range when the value v handed in lies outside it
StoredInRange(op, v, m) ==
    LET b == ValidBounds(op, getTimeFormat(m).ret)
    IN  /\ InBounds(StoredValue(op, m), b)
        /\ ~InBounds(v, b) => StoredValue(op, m) = constrain(v, b[1], b[2])

\* C11: after a single-field setter or setDateTimeAll called with arbitrary byte values the
\* value stored for each written field lies in the field's valid range (hundredths 0..99,
\* second and minute 0..59, hour 0..23 in 24H and 1..12 in 12H, weekday 1..7, day 1..31,
\* month 1..12, year 0..99), out-of-range input being clamped to the nearest bound.
C11_StoredFieldInValidRange ==
    /\ call.op \in RangedSetters => StoredInRange(call.op, call.arg, After)
    /\ call.op = "setDateTimeAll" =>
           \A op \in RangedSetters : StoredInRange(op, FieldOf(op, call.arg), After)

\* C12: setDateTimeMonth leaves the century bit of the month register as it was, and
\* setDateTimeCentury leaves the decoded month as it was, whatever the argument and
\* whether or not the call wrote the register.
C12_MonthAndCenturyKeepEachOther ==
    /\ call.op = "setDateTimeMonth" =>
           /\ getDateTimeCentury(After).ret = getDateTimeCentury(Before).ret
           /\ BitAnd(reg[DS1390_ADDR_READ_MON], DS1390_MASK_CENTURY)
                  = BitAnd(call.pre[DS1390_ADDR_READ_MON], DS1390_MASK_CENTURY)
    /\ call.op = "setDateTimeCentury" =>
           getDateTimeMonth(After).ret = getDateTimeMonth(Before).ret

C12_Witness ==
    /\ call.op = "setDateTimeMonth"
    /\ Changed
    /\ getDateTimeMonth(After).ret # getDateTimeMonth(Before).ret
    /\ getDateTimeCentury(Before).ret = 1
    /\ getDateTimeCentury(After).ret = 1

\* chip select is low (the device selected) after event i of a trace that starts deselected
SelectedAfter(log, i) == i >= 1 /\ log[i].kind # "deselect"

\* chip select is driven low only when high and high only when low, bytes are exchanged only
\* while it is low, and it is high at the end of the trace
WellBracketed(log) ==
    /\ \A i \in 1 .. Len(log) :
           IF log[i].kind = "select" THEN ~SelectedAfter(log, i - 1)
           ELSE SelectedAfter(log, i - 1)
    /\ ~SelectedAfter(log, Len(log))

\* the positions of the address bytes equal to Address
BracketsAt(log, Address) ==
    {i \in 1 .. Len(log) : IsAddressByte(log, i) /\ log[i].mosi = Address}

\* the address byte at position i is followed by exactly 8 data bytes and then a deselect
IsFrameBracket(log, i) ==
    /\ Len(log) >= i + 9
    /\ \A k \in 1 .. 8 : log[i + k].kind = "transfer"
    /\ log[i + 9].kind = "deselect"

\* the transactions of a trace that write a calendar register (addresses 0x80..0x87)
CalendarWrites(log) == {i \in WriteAddressBytes(log) : log[i].mosi < DS1390_ADDR_WRITE_HSEC + 8}

FrameReaders == {"getDateTimeAll", "getDateTimeEpoch"}

\* the frame read: one transaction at address 0x00 whose 8 data bytes are registers 0..7
FrameReadInOneBracket(log) ==
    /\ Cardinality(BracketsAt(log, DS1390_ADDR_READ_HSEC)) = 1
    /\ LET i == CHOOSE j \in BracketsAt(log, DS1390_ADDR_READ_HSEC) : TRUE
       IN  /\ IsFrameBracket(log, i)
           /\ \A k \in 1 .. 8 : log[i + k].miso = call.pre[k - 1]

\* the frame write: one transaction at address 0x80 whose 8 data bytes are the encoded
\* hundredths, second, minute, hour, weekday, day, month, year, stored in registers 0..7
FrameWriteInOneBracket(log, DateTime) ==
    /\ Cardinality(BracketsAt(log, DS1390_ADDR_WRITE_HSEC)) = 1
    /\ CalendarWrites(log) = BracketsAt(log, DS1390_ADDR_WRITE_HSEC)
    /\ LET i == CHOOSE j \in BracketsAt(log, DS1390_ADDR_WRITE_HSEC) : TRUE
       IN  /\ IsFrameBracket(log, i)
           /\ \A k \in 1 .. 8 : log[i + k].mosi = reg[k - 1]
           /\ log[i + 1].mosi = dec2bcd(constrain(DateTime.Hsecond, 0, 99))
           /\ log[i + 2].mosi = dec2bcd(constrain(DateTime.Second, 0, 59))
           /\ log[i + 3].mosi = dec2bcd(constrain(DateTime.Minute, 0, 59))
           /\ bcd2dec(BitAnd(log[i + 4].mosi, 31))
                  = bcd2dec(BitAnd(dec2bcd(IF getTimeFormat(Before).ret = DS1390_FORMAT_24H
                                           THEN constrain(DateTime.Hour, 0, 23)
                                           ELSE constrain(DateTime.Hour, 1, 12)), 31))
           /\ log[i + 5].mosi = dec2bcd(constrain(DateTime.Wday, 1, 7))
           /\ log[i + 6].mosi = dec2bcd(constrain(DateTime.Day, 1, 31))
           /\ BitAnd(log[i + 7].mosi, 31) = dec2bcd(constrain(DateTime.Month, 1, 12))
           /\ log[i + 8].mosi = dec2bcd(constrain(DateTime.Year, 0, 99))

\* C13: the 8-byte frame of getDateTimeAll and of setDateTimeAll (also when reached through
\* getDateTimeEpoch and setDateTimeEpoch) goes through exactly one select/deselect bracket,
\* one address byte followed by the 8 data bytes in register order with no select or
\* deselect in between, and the device is deselected when any public operation has returned.
C13_FrameInOneBracket ==
    /\ WellBracketed(call.log)
    /\ call.op \in FrameReaders => FrameReadInOneBracket(call.log)
    /\ call.op = "getDateTimeAll" =>
           /\ Len(call.log) = 11
           /\ call.val.Hsecond = bcd2dec(call.log[3].miso)
           /\ call.val.Second = bcd2dec(call.log[4].miso)
           /\ call.val.Minute = bcd2dec(call.log[5].miso)
           /\ call.val.Wday = bcd2dec(call.log[7].miso)
           /\ call.val.Day = bcd2dec(call.log[8].miso)
           /\ call.val.Year = bcd2dec(call.log[10].miso)
    /\ call.op = "setDateTimeAll" => FrameWriteInOneBracket(call.log, call.arg)
    /\ call.op = "setDateTimeEpoch" => FrameWriteInOneBracket(call.log, buf)

C13_Witness ==
    /\ call.op = "setDateTimeAll"
    /\ BracketsAt(call.log, DS1390_ADDR_WRITE_HSEC) = {6}
    /\ IsFrameBracket(call.log, 6)
    /\ Len(call.log) = 23
    /\ \E a \in 0 .. 7 : reg[a] # call.pre[a]

\* the setters C15 names
ChangeReporters ==
    {"setDateTimeSeconds", "setDateTimeMinutes", "setDateTimeHours", "setDateTimeWday",
     "setDateTimeDay", "setDateTimeMonth", "setDateTimeYear", "setDateTimeCentury"}

\* the range <<low, high>> each of these setters passes to constrain, under format Format
ClampBounds(op, Format) ==
    CASE op = "setDateTimeSeconds" -> <<0, 59>>
      [] op = "setDateTimeMinutes" -> <<0, 59>>
      [] op = "setDateTimeHours" -> IF Format = DS1390_FORMAT_24H THEN <<0, 23>> ELSE <<1, 12>>
      [] op = "setDateTimeWday" -> <<0, 7>>
      [] op = "setDateTimeDay" -> <<0, 31>>
      [] op = "setDateTimeMonth" -> <<1, 12>>
      [] op = "setDateTimeYear" -> <<0, 99>>
      [] op = "setDateTimeCentury" -> <<0, 1>>

\* C15 as stated: a setter of seconds, minutes, hours, weekday, day, month, year or century
\* returns true only when the decoded value of its field after the call differs from the
\* decoded value before the call.
C15_TrueOnlyWhenFieldChanged ==
    (call.op \in ChangeReporters /\ Changed) =>
        StoredValue(call.op, After) # StoredValue(call.op, Before)

\* C15, amended: such a setter returns true exactly when its argument differs from the
\* decoded value stored before the call; the decoded value then changed, unless the
\* argument lay outside the range the setter clamps to (it is then clamped, and the clamped
\* value may be the one already stored).
C15_TrueWhenArgumentDiffers ==
    call.op \in ChangeReporters =>
        /\ Changed <=> call.arg # StoredValue(call.op, Before)
        /\ Changed =>
               \/ StoredValue(call.op, After) # StoredValue(call.op, Before)
               \/ ~InBounds(call.arg, ClampBounds(call.op, getTimeFormat(Before).ret))

C15_Witness ==
    /\ call.op = "setDateTimeSeconds"
    /\ call.arg = 60
    /\ Changed
    /\ getDateTimeSeconds(Before).ret = 59
    /\ getDateTimeSeconds(After).ret = 59

\* the setters of one calendar field, and the field of DS1390DateTime each one owns
SingleFieldSetters == RangedSetters \cup {"setDateTimeAmPm", "setDateTimeCentury"}

OwnField(op) ==
    CASE op = "setDateTimeHSeconds" -> "Hsecond"
      [] op = "setDateTimeSeconds" -> "Second"
      [] op = "setDateTimeMinutes" -> "Minute"
      [] op = "setDateTimeHours" -> "Hour"
      [] op = "setDateTimeWday" -> "Wday"
      [] op = "setDateTimeDay" -> "Day"
      [] op = "setDateTimeMonth" -> "Month"
      [] op = "setDateTimeYear" -> "Year"
      [] op = "setDateTimeAmPm" -> "AmPm"
      [] op = "setDateTimeCentury" -> "Century"

CalendarFields ==
    {"Hsecond", "Second", "Minute", "Hour", "Wday", "Day", "Month", "Year", "AmPm", "Century"}

\* the calendar value the device holds, as getDateTimeAll decodes it
Decoded(m) == getDateTimeAll(m, NewDateTime).DateTime

\* a byte made of two decimal digits
IsBcd(b) == b % 16 <= 9 /\ b \div 16 <= 9

\* the calendar registers hold decimal digits next to their flag bits
ValidBcdFrame(r) ==
    /\ \A a \in {DS1390_ADDR_READ_HSEC, DS1390_ADDR_READ_SEC, DS1390_ADDR_READ_MIN,
                 DS1390_ADDR_READ_WDAY, DS1390_ADDR_READ_DAY, DS1390_ADDR_READ_YRS} : IsBcd(r[a])
    /\ IsBcd(BitAnd(r[DS1390_ADDR_READ_HRS], 63))
    /\ IsBcd(BitAnd(r[DS1390_ADDR_READ_MON], 31))

\* C19: from a device whose calendar registers hold valid BCD values, a single-field
\* setter leaves every decoded calendar field other than its own, the time format, the
\* trickle-charger register and the status bits other than the validity bit as they were.
C19_SetterChangesOwnFieldOnly ==
    (call.op \in SingleFieldSetters /\ ValidBcdFrame(call.pre)) =>
        /\ LET was == Decoded(Before)
               now == Decoded(After)
           IN  \A f \in CalendarFields \ {OwnField(call.op)} : now[f] = was[f]
        /\ getTimeFormat(After).ret = getTimeFormat(Before).ret
        /\ reg[DS1390_ADDR_READ_TCH] = call.pre[DS1390_ADDR_READ_TCH]
        /\ BitClear(reg[DS1390_ADDR_READ_STS], DS1390_MASK_OSF)
               = BitClear(call.pre[DS1390_ADDR_READ_STS], DS1390_MASK_OSF)

C19_Witness ==
    /\ call.op = "setDateTimeAmPm"
    /\ Changed
    /\ ValidBcdFrame(call.pre)
    /\ Decoded(Before).AmPm = DS1390_PM
    /\ Decoded(After).AmPm = DS1390_AM
    /\ Decoded(Before).Hour = 11
    /\ Decoded(After).Hour = 11
    /\ call.pre[DS1390_ADDR_READ_STS] = 131
    /\ reg[DS1390_ADDR_READ_STS] = 3

\* every field of the calendar value c is in range for time format Format
InRangeFor(Format, c) ==
    /\ c.Hsecond \in 0 .. 99
    /\ c.Second \in 0 .. 59
    /\ c.Minute \in 0 .. 59
    /\ c.Wday \in 1 .. 7
    /\ c.Day \in 1 .. 31
    /\ c.Month \in 1 .. 12
    /\ c.Year \in 0 .. 99
    /\ c.Century \in {0, 1}
    /\ IF Format = DS1390_FORMAT_24H
       THEN c.Hour \in 0 .. 23 /\ c.AmPm = 0
       ELSE c.Hour \in 1 .. 12 /\ c.AmPm \in {DS1390_AM, DS1390_PM}

\* the last call is getDateTimeAll made directly after setDateTimeAll
FrameReadBack == call.op = "getDateTimeAll" /\ call.after.op = "setDateTimeAll"

\* C20: for every calendar value cal whose fields are in range for the device's format,
\* setDateTimeAll(cal) leaves the format as it was, and getDateTimeAll called directly
\* after it returns cal's hundredths, second, minute, hour, amPm, weekday, day, month,
\* year and century.
C20_FrameReadBackReturnsCal ==
    /\ (call.op = "setDateTimeAll" /\ InRangeFor(getTimeFormat(Before).ret, call.arg)) =>
           getTimeFormat(After).ret = getTimeFormat(Before).ret
    /\ (FrameReadBack /\ InRangeFor(getTimeFormat(Before).ret, call.after.arg)) =>
           \A f \in CalendarFields : call.val[f] = call.after.arg[f]

C20_Witness ==
    /\ FrameReadBack
    /\ getTimeFormat(Before).ret = DS1390_FORMAT_12H
    /\ InRangeFor(DS1390_FORMAT_12H, call.after.arg)
    /\ call.after.arg.Hour = 12
    /\ call.after.arg.AmPm = DS1390_PM
    /\ call.val = call.after.arg

(***************************************************************************)
(* Conversion harness: a caller of the two public conversion functions.    *)
(* It hands a DS1390DateTime and a timezone to dateTimeToEpoch, or starts  *)
(* from a timestamp, and hands the timestamp to epochToDateTime.           *)
(***************************************************************************)
\* a register file holding 2000-01-01 (Saturday) 00:00:00.00 with the given Hours register
RegWithHours(HrsReg) ==
    [a \in RegAddrs |->
        IF a = DS1390_ADDR_READ_HRS THEN HrsReg
        ELSE IF a = DS1390_ADDR_READ_WDAY THEN 7
        ELSE IF a = DS1390_ADDR_READ_DAY THEN 1
        ELSE IF a = DS1390_ADDR_READ_MON THEN 1
        ELSE 0]

\* Gregorian calendar, stated independently of the driver
GregorianLeap(Y) == Y % 4 = 0 /\ (Y % 100 # 0 \/ Y % 400 = 0)

LeapYearsThrough(Y) == (Y \div 4) - (Y \div 100) + (Y \div 400)

DaysInMonth(Y, Mo) ==
    IF Mo = 2 THEN (IF GregorianLeap(Y) THEN 29 ELSE 28)
    ELSE IF Mo \in {4, 6, 9, 11} THEN 30 ELSE 31

DaysBeforeMonth(Y, Mo) ==
    <<0, 31, 59, 90, 120, 151, 181, 212, 243, 273, 304, 334>>[Mo]
    + (IF Mo > 2 /\ GregorianLeap(Y) THEN 1 ELSE 0)

\* days from 1970-01-01 to Y-Mo-D
CivilDays(Y, Mo, D) ==
    365 * (Y - 1970) + (LeapYearsThrough(Y - 1) - LeapYearsThrough(1969))
    + DaysBeforeMonth(Y, Mo) + (D - 1)

\* 1 = Sunday .. 7 = Saturday; 1970-01-01 was a Thursday
CivilWeekday(Y, Mo, D) == ((CivilDays(Y, Mo, D) + 4) % 7) + 1

\* the hour of the day, 0..23, that a DS1390DateTime denotes under a format
HourOfDay(Format, Hour, AmPm) ==
    IF Format = DS1390_FORMAT_24H THEN Hour
    ELSE (Hour % 12) + (IF AmPm = DS1390_PM THEN 12 ELSE 0)

YearSamples == {0, 4, 37, 38, 39, 99}

DaySamples(Y, Mo) == {1, DaysInMonth(Y, Mo)} \cup (IF Mo = 2 THEN {28} ELSE {})

ClockSamples == {<<0, 0>>, <<59, 59>>}

HourSamples(Format) ==
    IF Format = DS1390_FORMAT_24H
    THEN {<<h, 0>> : h \in {0, 1, 11, 12, 13, 23}}
    ELSE {<<h, a>> : h \in {1, 11, 12}, a \in {DS1390_AM, DS1390_PM}}

TzSamples == {-12, 0, 5, 12}

\* timestamps as <<days since 1970-01-01, second of the day>>:
\* 0, 3599, 86399, 86400, 946684800, 951782400, 2147483647, 2147483648,
\* 4102444799, 4294963696, 4294967295
EpochSamples ==
    {U32OfDaySec(e[1], e[2]) :
        e \in {<<0, 0>>, <<0, 3599>>, <<0, 86399>>, <<1, 0>>, <<10957, 0>>, <<11016, 0>>,
               <<24855, 11647>>, <<24855, 11648>>, <<47481, 86399>>, <<49710, 19696>>,
               <<49710, 23295>>}}

TzAnySamples == {-13, -12, -1, 0, 1, 12, 13}

\* the valid calendar values the harness draws from
CalSamples(Format) ==
    {[Hsecond |-> 0, Second |-> c[2], Minute |-> c[1], Hour |-> h[1],
      Wday |-> CivilWeekday(2000 + y, mo, d), Day |-> d, Month |-> mo, Year |-> y,
      AmPm |-> h[2], Century |-> 0] :
        y \in YearSamples, mo \in 1 .. 12, d \in 1 .. 31,
        h \in HourSamples(Format), c \in ClockSamples}

ValidCalSamples(Format) == {c \in CalSamples(Format) : c.Day \in DaySamples(2000 + c.Year, c.Month)}

FormatOf(r) == ShiftRight(BitAnd(r[DS1390_ADDR_READ_HRS], DS1390_MASK_FORMAT), 6)

InitEpoch ==
    /\ reg \in {RegWithHours(0), RegWithHours(82)}
    /\ buf = NewDateTime
    /\ call = NoCall
    /\ steps = 0
    /\ arg = NewDateTime
    /\ out = NewDateTime
    /\ codec = NoCodec
    /\ \/ /\ pc = "cal"
          /\ cal \in ValidCalSamples(FormatOf(reg))
          /\ tz \in TzSamples
          /\ epoch = ToU32(0)
       \/ /\ pc = "epoch"
          /\ cal = NewDateTime
          /\ tz \in TzAnySamples
          /\ epoch \in EpochSamples

\* the caller runs dateTimeToEpoch on its structure
CallDateTimeToEpoch ==
    /\ pc = "cal"
    /\ LET r == dateTimeToEpoch([reg |-> reg, log |-> <<>>], cal, tz)
       IN  /\ epoch' = r.ret
           /\ arg' = r.DateTime
           /\ reg' = r.m.reg
    /\ pc' = "epoch"
    /\ UNCHANGED <<buf, call, steps, cal, tz, out, codec>>

\* the caller runs epochToDateTime into a fresh structure or into the one it already holds
CallEpochToDateTime ==
    /\ pc = "epoch"
    /\ \E target \in {NewDateTime, arg} :
         LET r == epochToDateTime([reg |-> reg, log |-> <<>>], epoch, target, tz)
         IN  /\ out' = r.DateTime
             /\ reg' = r.m.reg
    /\ pc' = "done"
    /\ UNCHANGED <<buf, call, steps, cal, tz, arg, epoch, codec>>

NextEpoch == CallDateTimeToEpoch \/ CallEpochToDateTime

SpecEpoch == InitEpoch /\ [][NextEpoch]_vars

(***************************************************************************)
(* Codec harness: a caller that encodes a byte with dec2bcd and decodes    *)
(* the result with bcd2dec.                                                *)
(***************************************************************************)
\* the uint8_t arguments of dec2bcd
ByteValues == 0 .. 255

InitCodec ==
    /\ reg = RegWithHours(0)
    /\ buf = NewDateTime
    /\ call = NoCall
    /\ steps = 0
    /\ cal = NewDateTime
    /\ tz = 0
    /\ arg = NewDateTime
    /\ epoch = ToU32(0)
    /\ out = NewDateTime
    /\ pc = "dec"
    /\ codec \in {[dec |-> v, bcd |-> 0, back |-> 0] : v \in ByteValues}

CallDec2bcd ==
    /\ pc = "dec"
    /\ codec' = [codec EXCEPT !.bcd = dec2bcd(codec.dec)]
    /\ pc' = "bcd"
    /\ UNCHANGED <<reg, buf, call, steps, cal, tz, arg, epoch, out>>

CallBcd2dec ==
    /\ pc = "bcd"
    /\ codec' = [codec EXCEPT !.back = bcd2dec(codec.bcd)]
    /\ pc' = "decoded"
    /\ UNCHANGED <<reg, buf, call, steps, cal, tz, arg, epoch, out>>

NextCodec == CallDec2bcd \/ CallBcd2dec

SpecCodec == InitCodec /\ [][NextCodec]_vars

\* C14: bcd2dec(dec2bcd(v)) = v for every v in 0..99, dec2bcd(v) holding v/10 in the high
\* nibble and v%10 in the low nibble.
C14_BcdRoundTrip ==
    /\ (pc \in {"bcd", "decoded"} /\ codec.dec \in 0 .. 99) =>
           /\ codec.bcd \div 16 = codec.dec \div 10
           /\ codec.bcd % 16 = codec.dec % 10
    /\ (pc = "decoded" /\ codec.dec \in 0 .. 99) => codec.back = codec.dec

C14_Witness ==
    /\ pc = "decoded"
    /\ codec.dec = 59
    /\ codec.bcd = 89
    /\ codec.back = 59

(***************************************************************************)
(* Properties of the conversions                                           *)
(***************************************************************************)
\* the harness started from a calendar value and has converted it there and back
RoundTripDone == pc = "done" /\ cal.Month # 0

\* C1: for every valid calendar value and tz in -12..12, under either format,
\* epochToDateTime(dateTimeToEpoch(cal, tz), tz) reproduces hour, minute, second,
\* day, month, year, weekday and amPm of cal.
C1_RoundTripReproducesCal ==
    RoundTripDone =>
        /\ out.Hour = cal.Hour
        /\ out.Minute = cal.Minute
        /\ out.Second = cal.Second
        /\ out.Day = cal.Day
        /\ out.Month = cal.Month
        /\ out.Year = cal.Year
        /\ out.Wday = cal.Wday
        /\ out.AmPm = cal.AmPm

\* seconds from local midnight of cal's date to cal's time, moved to GMT
SecondsIntoDay(c, Timezone) == c.Hour * 3600 + c.Minute * 60 + c.Second - Timezone * 3600

\* the true timestamp of a 24h calendar value c of the years 2000..2099 in timezone Timezone
CivilEpoch(c, Timezone) ==
    U32OfDaySec(CivilDays(2000 + c.Year, c.Month, c.Day) + (SecondsIntoDay(c, Timezone) \div 86400),
                SecondsIntoDay(c, Timezone) % 86400)

\* 946684800 = 14445 * 65536 + 17280
Epoch2000 == <<14445, 17280>>

IsMidnight2000(c) ==
    /\ c.Year = 0 /\ c.Month = 1 /\ c.Day = 1
    /\ c.Hour = 0 /\ c.Minute = 0 /\ c.Second = 0

\* C2: in 24H format dateTimeToEpoch(cal, tz) is the true number of seconds from
\* 1970-01-01T00:00:00 to cal (Gregorian rule, year read as 20xx) minus tz*3600;
\* 2000-01-01 00:00:00 with tz = 0 gives 946684800.
C2_EpochIsCivilSeconds ==
    (pc = "epoch" /\ cal.Month # 0 /\ FormatOf(reg) = DS1390_FORMAT_24H) =>
        /\ epoch = CivilEpoch(cal, tz)
        /\ (IsMidnight2000(cal) /\ tz = 0) => epoch = Epoch2000

C2_Witness ==
    /\ pc = "epoch"
    /\ FormatOf(reg) = DS1390_FORMAT_24H
    /\ IsMidnight2000(cal)
    /\ tz = 0
    /\ epoch = Epoch2000

\* whole days and second of the day of a timestamp
EpochDays(e) == U32ToInt(U32DivInt(U32DivInt(U32DivInt(e, 60), 60), 24))

EpochSecondOfDay(e) ==
    U32ModInt(e, 60) + 60 * U32ModInt(U32DivInt(e, 60), 60)
    + 3600 * U32ModInt(U32DivInt(U32DivInt(e, 60), 60), 24)

\* floor((e + Timezone * 3600) / 86400) over the integers
LocalDays(e, Timezone) == EpochDays(e) + ((EpochSecondOfDay(e) + Timezone * 3600) \div 86400)

LocalSecondOfDay(e, Timezone) == (EpochSecondOfDay(e) + Timezone * 3600) % 86400

\* 0 <= e + Timezone * 3600 < 2^32  (2^32 = 49710 * 86400 + 23296)
LocalFitsU32(e, Timezone) ==
    /\ LocalDays(e, Timezone) >= 0
    /\ \/ LocalDays(e, Timezone) < 49710
       \/ LocalDays(e, Timezone) = 49710 /\ LocalSecondOfDay(e, Timezone) < 23296

WdayFormula(e, Timezone) == ((LocalDays(e, Timezone) + 4) % 7) + 1

\* C3 as stated: for every epoch e and every tz the weekday is
\* ((floor((e + tz*3600) / 86400) + 4) mod 7) + 1.
C3_WeekdayForEveryEpoch ==
    pc = "done" => out.Wday = WdayFormula(epoch, tz)

\* C3, amended: for every epoch e and tz whose sum e + tz*3600 lies in 0 .. 2^32-1
\* epochToDateTime sets weekday to ((floor((e + tz*3600) / 86400) + 4) mod 7) + 1,
\* a value in 1..7; epochToDateTime(946684800, 0) yields 7.
C3_WeekdayWithinU32 ==
    (pc = "done" /\ LocalFitsU32(epoch, tz)) =>
        /\ out.Wday = WdayFormula(epoch, tz)
        /\ out.Wday \in 1 .. 7
        /\ (epoch = Epoch2000 /\ tz = 0) => out.Wday = 7

C3_Witness ==
    /\ pc = "done"
    /\ cal.Month = 0
    /\ epoch = Epoch2000
    /\ tz = 0
    /\ out.Wday = 7

\* C18: dateTimeToEpoch(cal, tz) works on a copy: when it has returned, every field of the
\* caller's calendar value (year and hour in particular) is as it was before the call, and
\* the call has written no device register.
C18_DateTimeToEpochKeepsArgument ==
    (pc = "epoch" /\ cal.Month # 0) =>
        /\ arg = cal
        /\ NoRegisterWrite(dateTimeToEpoch([reg |-> reg, log |-> <<>>], cal, tz).m.log)
        /\ reg \in {RegWithHours(0), RegWithHours(82)}

\* the local date of timestamp e in timezone Timezone lies in 2000-01-01 .. 2099-12-31
\* (days 10957 .. 47481 from 1970-01-01)
LocalYearIn2000s(e, Timezone) ==
    LocalDays(e, Timezone) >= 10957 /\ LocalDays(e, Timezone) <= 47481

\* the last call is getDateTimeEpoch(tz) made directly after setDateTimeEpoch(e, tz)
EpochReadBack ==
    /\ call.op = "getDateTimeEpoch"
    /\ call.after.op = "setDateTimeEpoch"
    /\ call.after.arg[2] = call.arg

\* C16: for every epoch e of the years 2000..2099 (after the timezone shift) and tz in
\* -12..12, under either format, getDateTimeEpoch(tz) called directly after
\* setDateTimeEpoch(e, tz) returns e.
C16_EpochReadBackReturnsEpoch ==
    (EpochReadBack /\ LocalYearIn2000s(call.after.arg[1], call.arg)) =>
        call.val = call.after.arg[1]


\* the registers setDateTimeEpoch(e, tz) leaves when it is the first operation called on a
\* driver object attached to the device as it was before the last call
RegsOfFirstSetEpoch(e, Timezone) == setDateTimeEpoch(Before, NewDateTime, e, Timezone).m.reg

\* C17: the registers left by setDateTimeEpoch(e, tz) depend on e, tz and the device state
\* alone: whatever calls came before, they are the registers the same call leaves from the
\* same device state with no call before it, hundredths register and century bit included.
C17_SetEpochIgnoresHistory ==
    call.op = "setDateTimeEpoch" =>
        reg = RegsOfFirstSetEpoch(call.arg[1], call.arg[2])


====
